---------------------------- MODULE Spec2Model ----------------------------
(***************************************************************************)
(* Model of the HIP backend of the stream benchmark                        *)
(* (src/babelStream/hip/HIPStream.cpp).                                    *)
(*                                                                         *)
(* The host is one thread: it constructs a HIPStream<T>, calls its member  *)
(* functions one after the other and destroys it.  Every member function   *)
(* is a short straight-line sequence of HIP runtime calls; the model steps *)
(* through them one call at a time (Script).  The device executes the      *)
(* kernels of the null stream asynchronously, in launch order.             *)
(*                                                                         *)
(* Element values are integers.  Every value the model produces is a       *)
(* small integer, which both float and double represent exactly, so the    *)
(* integer arithmetic is the arithmetic of T on these values.              *)
(*                                                                         *)
(* TBSIZE is 1024 in the source.  The model keeps the name and its uses    *)
(* but runs with a block of 4 lanes (still a power of two, as the tree     *)
(* fold of dot_kernel needs), so that the lanes of a block can be          *)
(* interleaved exhaustively.                                               *)
(***************************************************************************)
EXTENDS Integers, Sequences, FiniteSets, TLC

TBSIZE == 4

\* ---- bounds of the model ------------------------------------------------
MaxArraySize == 8
MaxOps == 2
MaxConstructions == 2

\* ---- the inputs the model draws from ------------------------------------
ArraySizes == 1..MaxArraySize
\* what the devices report as total memory, in bytes: one small device, and
\* a large and a small one in both orders
DeviceProfiles == {(0 :> 64), (0 :> 256 @@ 1 :> 64), (0 :> 64 @@ 1 :> 256)}
DeviceIndices == {-1, 0, 1, 2}
ElementSizes == {4, 8}            \* sizeof(float), sizeof(double)
Scalars == {1, 2}
ElementsPerLane == {1, 2}
InitTriples == {<<1, 1, 1>>, <<0, 2, 3>>}
Garbage == {0, 3}                 \* what an uninitialised buffer may hold
Kernels == {"copy", "mul", "add", "triad", "nstream", "dot"}

VARIABLES
  deviceCount,            \* what hipGetDeviceCount reports
  totalGlobalMem,         \* device -> props.totalGlobalMem
  scalar,                 \* startScalar, a build-time constant
  dot_elements_per_lane,  \* build-time constant of the class
  activeDevice,           \* the runtime's current device (hipSetDevice)
  devAllocated,           \* device -> bytes held by hipMalloc
  hostAllocated,          \* bytes held by hipHostMalloc
  pc,                     \* where the host is
  ARRAY_SIZE, device_index, sizeofT,   \* constructor arguments / T
  array_size, dot_num_blocks,          \* fields of the instance
  d_a, d_b, d_c, sums,                 \* buffers of the instance
  outcome,                \* how the last constructor run ended
  allocCalls,             \* allocation calls made by the constructor run
  nConstructed,           \* constructor runs so far
  op, ip, args,           \* member function being executed, position in it
  stream,                 \* kernels launched and not yet executed
  lastError,              \* the runtime's last-error slot
  pendingError,           \* an execution fault not yet reported to the host
  errorReported,          \* some runtime call returned an error status
  oob,                    \* some kernel thread indexed outside its buffer
  log,                    \* kernels completed since the last init_arrays
  initVals,               \* arguments of the last init_arrays, or <<>>
  h_a, h_b, h_c,          \* vectors filled by the last read_arrays
  dotResult,              \* value returned by the last dot
  lpc, li, loff, ltmp, lbar, tb_sum,   \* lanes of dot_kernel (SpecDot)
  consumed                \* index -> times a lane has accumulated it

envVars == <<deviceCount, totalGlobalMem, scalar, dot_elements_per_lane>>
memVars == <<activeDevice, devAllocated, hostAllocated>>
ctorVars == <<ARRAY_SIZE, device_index, sizeofT, outcome, allocCalls, nConstructed>>
fieldVars == <<array_size, dot_num_blocks>>
bufVars == <<d_a, d_b, d_c, sums>>
callVars == <<op, ip, args>>
devVars == <<stream, lastError, pendingError, errorReported, oob>>
histVars == <<log, initVals>>
outVars == <<h_a, h_b, h_c, dotResult>>
laneVars == <<lpc, li, loff, ltmp, lbar, tb_sum, consumed>>
vars == <<envVars, memVars, pc, ctorVars, fieldVars, bufVars, callVars,
          devVars, histVars, outVars, laneVars>>

NoBuf == <<>>
Fill(n, v) == [i \in 0..(n-1) |-> v]

\* ---- arithmetic of the constructor ---------------------------------------
\* the test of line 29 left out
ArraySizeUnchecked(n) == TRUE

\* line 29: the array size must be divisible by TBSIZE
ArraySizeOK(n) == n % TBSIZE = 0

\* line 39: the only test made on the device index
DeviceIndexRejected(d, count) == d >= count

\* hipSetDevice succeeds for the devices that exist
SetDeviceOK(d, count) == d >= 0 /\ d < count

\* line 49
DotNumBlocks(n, epl) == (n + (TBSIZE * epl - 1)) \div (TBSIZE * epl)

\* lines 51-53
ArrayBytes(n, szT) == szT * n

\* line 63: the properties are those of device 0
PropsDevice(d) == 0

\* line 64
BuffersFit(mem, n, szT) == ~(mem < 3 * n * szT)

\* ---- the instance before construction -------------------------------------
NoInstance ==
  /\ array_size = 0 /\ dot_num_blocks = 0
  /\ d_a = NoBuf /\ d_b = NoBuf /\ d_c = NoBuf /\ sums = NoBuf

LanesIdle ==
  /\ lpc = <<>> /\ li = <<>> /\ loff = <<>> /\ ltmp = <<>> /\ lbar = <<>>
  /\ tb_sum = <<>> /\ consumed = <<>>

Init ==
  /\ totalGlobalMem \in DeviceProfiles
  /\ deviceCount = Cardinality(DOMAIN totalGlobalMem)
  /\ scalar \in Scalars
  /\ dot_elements_per_lane \in ElementsPerLane
  /\ activeDevice = 0
  /\ devAllocated = [d \in 0..(deviceCount-1) |-> 0]
  /\ hostAllocated = 0
  /\ pc = "none"
  /\ ARRAY_SIZE = 0 /\ device_index = 0 /\ sizeofT = 4
  /\ outcome = "none" /\ allocCalls = 0 /\ nConstructed = 0
  /\ NoInstance
  /\ op = "none" /\ ip = 0 /\ args = <<>>
  /\ stream = <<>> /\ lastError = "success" /\ pendingError = FALSE
  /\ errorReported = FALSE /\ oob = FALSE
  /\ log = <<>> /\ initVals = <<>>
  /\ h_a = NoBuf /\ h_b = NoBuf /\ h_c = NoBuf /\ dotResult = 0
  /\ LanesIdle

\* HIP_CHECK(stat) with stat # hipSuccess, lines 14-22: the message is printed
\* and exit(-1) ends the process; the instance, what it had queued and every
\* allocation of the process are gone with it.
HipCheckFails ==
  /\ pc' = "exited"
  /\ errorReported' = TRUE
  /\ outcome' = IF outcome = "running" THEN "exit" ELSE outcome
  /\ devAllocated' = [d \in DOMAIN devAllocated |-> 0]
  /\ hostAllocated' = 0
  /\ array_size' = 0 /\ dot_num_blocks' = 0
  /\ d_a' = NoBuf /\ d_b' = NoBuf /\ d_c' = NoBuf /\ sums' = NoBuf
  /\ ip' = 0 /\ args' = <<>>
  /\ stream' = <<>> /\ lastError' = "success" /\ pendingError' = FALSE
  /\ log' = <<>> /\ initVals' = <<>>
  /\ h_a' = NoBuf /\ h_b' = NoBuf /\ h_c' = NoBuf /\ dotResult' = 0
  /\ UNCHANGED <<envVars, activeDevice, ARRAY_SIZE, device_index, sizeofT,
                 allocCalls, nConstructed, op, oob, laneVars>>

\* ---- the constructor, lines 25-71 -----------------------------------------
CtorBegin(n, d, szT) ==
  /\ pc = "none"
  /\ nConstructed < MaxConstructions
  /\ pc' = "ctor_check_size"
  /\ ARRAY_SIZE' = n /\ device_index' = d /\ sizeofT' = szT
  /\ outcome' = "running" /\ allocCalls' = 0
  /\ nConstructed' = nConstructed + 1
  /\ array_size' = 0 /\ dot_num_blocks' = 0
  /\ d_a' = NoBuf /\ d_b' = NoBuf /\ d_c' = NoBuf /\ sums' = NoBuf
  /\ log' = <<>> /\ initVals' = <<>>
  /\ h_a' = NoBuf /\ h_b' = NoBuf /\ h_c' = NoBuf /\ dotResult' = 0
  /\ UNCHANGED <<envVars, memVars, callVars, devVars, laneVars>>

\* lines 29-34
CtorCheckSize ==
  /\ pc = "ctor_check_size"
  /\ IF ArraySizeOK(ARRAY_SIZE)
       THEN pc' = "ctor_set_device" /\ UNCHANGED outcome
       ELSE pc' = "none" /\ outcome' = "BadArraySize"
  /\ UNCHANGED <<envVars, memVars, ARRAY_SIZE, device_index, sizeofT,
                 allocCalls, nConstructed, fieldVars, bufVars, callVars,
                 devVars, histVars, outVars, laneVars>>

\* lines 37-49: device count, index test, hipSetDevice, the two size fields
CtorSetDevice ==
  /\ pc = "ctor_set_device"
  /\ IF DeviceIndexRejected(device_index, deviceCount)
       THEN /\ pc' = "none" /\ outcome' = "InvalidDevice"
            /\ UNCHANGED <<envVars, memVars, ARRAY_SIZE, device_index,
                           sizeofT, allocCalls, nConstructed, fieldVars,
                           bufVars, callVars, devVars, histVars, outVars,
                           laneVars>>
       ELSE IF ~SetDeviceOK(device_index, deviceCount)
         THEN HipCheckFails
         ELSE /\ pc' = "ctor_host_malloc"
              /\ activeDevice' = device_index
              /\ array_size' = ARRAY_SIZE
              /\ dot_num_blocks' = DotNumBlocks(ARRAY_SIZE, dot_elements_per_lane)
              /\ UNCHANGED <<envVars, devAllocated, hostAllocated, ctorVars,
                             bufVars, callVars, devVars, histVars, outVars,
                             laneVars>>

\* line 59: hipHostMalloc of the partial sums
CtorHostMalloc ==
  /\ pc = "ctor_host_malloc"
  /\ \E ok \in BOOLEAN :
       IF ok
         THEN /\ pc' = "ctor_check_fit"
              /\ allocCalls' = allocCalls + 1
              /\ hostAllocated' = hostAllocated + sizeofT * dot_num_blocks
              /\ \E g \in Garbage : sums' = Fill(dot_num_blocks, g)
              /\ UNCHANGED <<envVars, activeDevice, devAllocated, ARRAY_SIZE,
                             device_index, sizeofT, outcome, nConstructed,
                             fieldVars, d_a, d_b, d_c, callVars, devVars,
                             histVars, outVars, laneVars>>
         ELSE HipCheckFails

\* lines 62-65
CtorCheckFit ==
  /\ pc = "ctor_check_fit"
  /\ IF BuffersFit(totalGlobalMem[PropsDevice(device_index)], ARRAY_SIZE, sizeofT)
       THEN pc' = "ctor_malloc_a" /\ UNCHANGED outcome
       ELSE pc' = "none" /\ outcome' = "NotEnoughMemory"
  /\ UNCHANGED <<envVars, memVars, ARRAY_SIZE, device_index, sizeofT,
                 allocCalls, nConstructed, fieldVars, bufVars, callVars,
                 devVars, histVars, outVars, laneVars>>

\* lines 68-70: hipMalloc fails when the active device has not that much
\* memory left; the buffer it returns is not initialised
MallocOK(bytes) ==
  devAllocated[activeDevice] + bytes <= totalGlobalMem[activeDevice]

CtorMalloc ==
  /\ pc \in {"ctor_malloc_a", "ctor_malloc_b", "ctor_malloc_c"}
  /\ IF MallocOK(ArrayBytes(ARRAY_SIZE, sizeofT))
       THEN /\ allocCalls' = allocCalls + 1
            /\ devAllocated' = [devAllocated EXCEPT
                 ![activeDevice] = @ + ArrayBytes(ARRAY_SIZE, sizeofT)]
            /\ \E g \in Garbage :
                 /\ d_a' = IF pc = "ctor_malloc_a" THEN Fill(array_size, g) ELSE d_a
                 /\ d_b' = IF pc = "ctor_malloc_b" THEN Fill(array_size, g) ELSE d_b
                 /\ d_c' = IF pc = "ctor_malloc_c" THEN Fill(array_size, g) ELSE d_c
            /\ pc' = CASE pc = "ctor_malloc_a" -> "ctor_malloc_b"
                       [] pc = "ctor_malloc_b" -> "ctor_malloc_c"
                       [] OTHER -> "idle"
            /\ outcome' = IF pc = "ctor_malloc_c" THEN "ok" ELSE outcome
            /\ UNCHANGED <<envVars, activeDevice, hostAllocated, ARRAY_SIZE,
                           device_index, sizeofT, nConstructed, fieldVars,
                           sums, callVars, devVars, histVars, outVars,
                           laneVars>>
       ELSE HipCheckFails

Constructor ==
  \/ \E n \in ArraySizes, d \in DeviceIndices, szT \in ElementSizes :
       CtorBegin(n, d, szT)
  \/ CtorCheckSize
  \/ CtorSetDevice
  \/ CtorHostMalloc
  \/ CtorCheckFit
  \/ CtorMalloc

\* ---- kernels, lines 84-223 --------------------------------------------------
\* the index computed without the block size
ThreadIndexNoBlockDim(blk, lane) == blk + lane

\* blockDim.x * blockIdx.x + threadIdx.x, with blockDim.x = TBSIZE
ThreadIndex(blk, lane) == TBSIZE * blk + lane

\* the indices the threads of a launch of grid blocks compute
Covered(grid) ==
  {ThreadIndex(blk, lane) : blk \in 0..(grid-1), lane \in 0..(TBSIZE-1)}

\* the grid of the launch in each member function
LaunchGrid(o) ==
  IF o = "dot" THEN dot_num_blocks ELSE array_size \div TBSIZE

\* buf[i] = val[i] done by every thread of the launch
Store(buf, grid, val) ==
  [i \in DOMAIN buf |-> IF i \in Covered(grid) THEN val[i] ELSE buf[i]]

OutOfBounds(buf, grid) == Covered(grid) \ DOMAIN buf # {}

\* right-hand sides, per index
InitRhs(v) == [i \in 0..(array_size-1) |-> v]
CopyRhs == [i \in DOMAIN d_a |-> d_a[i]]
MulRhs == [i \in DOMAIN d_c |-> scalar * d_c[i]]
AddRhs == [i \in DOMAIN d_a |-> d_a[i] + d_b[i]]
\* triad accumulating into a, nstream overwriting a
TriadAccumulates == [i \in DOMAIN d_b |-> d_a[i] + (d_b[i] + scalar * d_c[i])]
NstreamOverwrites == [i \in DOMAIN d_a |-> d_b[i] + scalar * d_c[i]]
TriadRhs == [i \in DOMAIN d_b |-> d_b[i] + scalar * d_c[i]]
NstreamRhs == [i \in DOMAIN d_a |-> d_a[i] + (d_b[i] + scalar * d_c[i])]

\* dot_kernel, lines 205-210: what one lane accumulates, starting at i
RECURSIVE LaneSum(_, _, _, _, _)
LaneSum(a, b, n, i, stride) ==
  IF i < n THEN a[i] * b[i] + LaneSum(a, b, n, i + stride, stride) ELSE 0

\* dot_kernel, lines 212-219: the fold when every lane is at the same step
RECURSIVE TreeFold(_, _)
TreeFold(tb, offset) ==
  IF offset > 0
    THEN TreeFold([l \in DOMAIN tb |->
                     IF l < offset THEN tb[l] + tb[l + offset] ELSE tb[l]],
                  offset \div 2)
    ELSE tb

\* dot_kernel, lines 221-222: what block blk leaves in sum[blk]
BlockSum(a, b, n, grid, blk) ==
  TreeFold([l \in 0..(TBSIZE-1) |->
              LaneSum(a, b, n, ThreadIndex(blk, l), TBSIZE * grid)],
           TBSIZE \div 2)[0]

DotSums(a, b, n, grid, old) ==
  [g \in DOMAIN old |-> IF g < grid THEN BlockSum(a, b, n, grid, g) ELSE old[g]]

\* dot(), lines 232-234: sum += sums[i] for i = 0 .. k-1
RECURSIVE HostSum(_, _)
HostSum(s, k) == IF k = 0 THEN 0 ELSE HostSum(s, k - 1) + s[k - 1]

\* ---- member functions, lines 93-237 and 74-81 -----------------------------
\* nstream returning without hipDeviceSynchronize
ScriptNstreamNoSync(o) ==
  CASE o = "init_arrays" -> <<"launch", "gle", "sync", "gle">>
    [] o = "copy" -> <<"launch", "sync", "gle">>
    [] o \in {"mul", "add", "triad"} -> <<"launch", "gle", "sync">>
    [] o = "nstream" -> <<"launch", "gle">>
    [] o = "dot" -> <<"launch", "gle", "sync", "hostsum">>
    [] o = "read_arrays" -> <<"memcpy_a", "memcpy_b", "memcpy_c">>
    [] o = "destroy" -> <<"hostfree", "free_a", "free_b", "free_c">>
    [] OTHER -> <<>>

\* copy without its hipGetLastError
ScriptCopyNoLastError(o) ==
  CASE o = "init_arrays" -> <<"launch", "gle", "sync", "gle">>
    [] o = "copy" -> <<"launch", "sync">>
    [] o \in {"mul", "add", "triad", "nstream"} -> <<"launch", "gle", "sync">>
    [] o = "dot" -> <<"launch", "gle", "sync", "hostsum">>
    [] o = "read_arrays" -> <<"memcpy_a", "memcpy_b", "memcpy_c">>
    [] o = "destroy" -> <<"hostfree", "free_a", "free_b", "free_c">>
    [] OTHER -> <<>>

\* the runtime calls each member function makes, in order
Script(o) ==
  CASE o = "init_arrays" -> <<"launch", "gle", "sync", "gle">>
    [] o = "copy" -> <<"launch", "sync", "gle">>
    [] o \in {"mul", "add", "triad", "nstream"} -> <<"launch", "gle", "sync">>
    [] o = "dot" -> <<"launch", "gle", "sync", "hostsum">>
    [] o = "read_arrays" -> <<"memcpy_a", "memcpy_b", "memcpy_c">>
    [] o = "destroy" -> <<"hostfree", "free_a", "free_b", "free_c">>
    [] OTHER -> <<>>

AtStep(what) ==
  /\ pc = "call"
  /\ ip <= Len(Script(op))
  /\ Script(op)[ip] \in what

\* the caller enters a member function; it initialises the arrays once and
\* runs the kernels, at most MaxOps of them, on the initialised arrays
Call(o, a) ==
  /\ pc = "idle"
  /\ o = "init_arrays" => initVals = <<>>
  /\ o \in Kernels => initVals # <<>> /\ Len(log) < MaxOps
  /\ pc' = "call" /\ op' = o /\ ip' = 1 /\ args' = a
  /\ h_a' = NoBuf /\ h_b' = NoBuf /\ h_c' = NoBuf /\ dotResult' = 0
  /\ UNCHANGED <<envVars, memVars, ctorVars, fieldVars, bufVars, devVars,
                 histVars, laneVars>>

\* kernel<<<grid, TBSIZE, 0, 0>>>(...): queued on the null stream, or the
\* launch is refused and the error is left in the last-error slot
StepLaunch ==
  /\ AtStep({"launch"})
  /\ ip' = ip + 1
  /\ \E ok \in BOOLEAN :
       IF ok
         THEN /\ stream' = Append(stream,
                     [name |-> op, grid |-> LaunchGrid(op), args |-> args])
              /\ UNCHANGED <<lastError, errorReported>>
         ELSE /\ lastError' = "error"
              /\ errorReported' = TRUE
              /\ UNCHANGED stream
  /\ UNCHANGED <<envVars, memVars, pc, ctorVars, fieldVars, bufVars, op,
                 args, pendingError, oob, histVars, outVars, laneVars>>

\* HIP_CHECK( hipGetLastError() ): returns the slot and resets it
StepGetLastError ==
  /\ AtStep({"gle"})
  /\ IF lastError # "success"
       THEN HipCheckFails
       ELSE /\ ip' = ip + 1
            /\ UNCHANGED <<envVars, memVars, pc, ctorVars, fieldVars, bufVars,
                           op, args, devVars, histVars, outVars, laneVars>>

\* HIP_CHECK( hipDeviceSynchronize() ): blocks until the stream is empty and
\* returns the fault of the work it waited for
StepSync ==
  /\ AtStep({"sync"})
  /\ stream = <<>>
  /\ IF pendingError
       THEN HipCheckFails
       ELSE /\ ip' = ip + 1
            /\ UNCHANGED <<envVars, memVars, pc, ctorVars, fieldVars, bufVars,
                           op, args, devVars, histVars, outVars, laneVars>>

\* dot(), lines 232-236
StepHostSum ==
  /\ AtStep({"hostsum"})
  /\ dotResult' = HostSum(sums, dot_num_blocks)
  /\ ip' = ip + 1
  /\ UNCHANGED <<envVars, memVars, pc, ctorVars, fieldVars, bufVars, op,
                 args, devVars, histVars, h_a, h_b, h_c, laneVars>>

\* read_arrays, lines 116-118: hipMemcpy waits for the null stream; the
\* caller's vectors have array_size elements
StepMemcpy ==
  /\ AtStep({"memcpy_a", "memcpy_b", "memcpy_c"})
  /\ stream = <<>>
  /\ \E ok \in BOOLEAN :
       IF ok
         THEN /\ h_a' = IF Script(op)[ip] = "memcpy_a" THEN d_a ELSE h_a
              /\ h_b' = IF Script(op)[ip] = "memcpy_b" THEN d_b ELSE h_b
              /\ h_c' = IF Script(op)[ip] = "memcpy_c" THEN d_c ELSE h_c
              /\ ip' = ip + 1
              /\ UNCHANGED <<envVars, memVars, pc, ctorVars, fieldVars,
                             bufVars, op, args, devVars, histVars, dotResult,
                             laneVars>>
         ELSE HipCheckFails

\* ~HIPStream, lines 77-80
StepFree ==
  /\ AtStep({"hostfree", "free_a", "free_b", "free_c"})
  /\ \E ok \in BOOLEAN :
       IF ok
         THEN /\ IF Script(op)[ip] = "hostfree"
                   THEN /\ hostAllocated' = hostAllocated - sizeofT * dot_num_blocks
                        /\ UNCHANGED devAllocated
                   ELSE /\ devAllocated' = [devAllocated EXCEPT
                             ![activeDevice] = @ - ArrayBytes(array_size, sizeofT)]
                        /\ UNCHANGED hostAllocated
              /\ ip' = ip + 1
              /\ UNCHANGED <<envVars, activeDevice, pc, ctorVars, fieldVars,
                             bufVars, op, args, devVars, histVars, outVars,
                             laneVars>>
         ELSE HipCheckFails

\* the member function returns to its caller
Return ==
  /\ pc = "call"
  /\ ip > Len(Script(op))
  /\ op' = "none" /\ ip' = 0 /\ args' = <<>>
  /\ pc' = IF op = "destroy" THEN "none" ELSE "idle"
  /\ log' = IF op \in Kernels THEN Append(log, op)
            ELSE IF op = "init_arrays" THEN <<>> ELSE log
  /\ initVals' = IF op = "init_arrays" THEN args ELSE initVals
  /\ UNCHANGED <<envVars, memVars, ctorVars, fieldVars, bufVars, devVars,
                 outVars, laneVars>>

\* the device executes the oldest kernel of the stream, or faults in it
DeviceRun ==
  /\ pc # "exited"
  /\ stream # <<>>
  /\ stream' = Tail(stream)
  /\ LET k == Head(stream) IN
     \E fault \in BOOLEAN :
       IF fault
         THEN /\ pendingError' = TRUE
              /\ UNCHANGED <<bufVars, oob>>
         ELSE /\ UNCHANGED pendingError
              /\ oob' = (oob \/ (k.name # "dot" /\ OutOfBounds(d_a, k.grid)))
              /\ d_a' = CASE k.name = "init_arrays" -> Store(d_a, k.grid, InitRhs(k.args[1]))
                          [] k.name = "triad" -> Store(d_a, k.grid, TriadRhs)
                          [] k.name = "nstream" -> Store(d_a, k.grid, NstreamRhs)
                          [] OTHER -> d_a
              /\ d_b' = CASE k.name = "init_arrays" -> Store(d_b, k.grid, InitRhs(k.args[2]))
                          [] k.name = "mul" -> Store(d_b, k.grid, MulRhs)
                          [] OTHER -> d_b
              /\ d_c' = CASE k.name = "init_arrays" -> Store(d_c, k.grid, InitRhs(k.args[3]))
                          [] k.name = "copy" -> Store(d_c, k.grid, CopyRhs)
                          [] k.name = "add" -> Store(d_c, k.grid, AddRhs)
                          [] OTHER -> d_c
              /\ sums' = IF k.name = "dot"
                           THEN DotSums(d_a, d_b, array_size, k.grid, sums)
                           ELSE sums
  /\ UNCHANGED <<envVars, memVars, pc, ctorVars, fieldVars, callVars,
                 lastError, errorReported, histVars, outVars, laneVars>>

Member ==
  \/ \E o \in Kernels \cup {"read_arrays", "destroy"} : Call(o, <<>>)
  \/ \E init \in InitTriples : Call("init_arrays", init)
  \/ StepLaunch
  \/ StepGetLastError
  \/ StepSync
  \/ StepHostSum
  \/ StepMemcpy
  \/ StepFree
  \/ Return

Next == Constructor \/ Member \/ DeviceRun

Spec == Init /\ [][Next]_vars

\* ---- dot_kernel lane by lane, lines 200-223 -------------------------------
\* The lanes of a block share tb_sum and meet at __syncthreads(); blocks
\* share nothing.  A lane takes one step per access to tb_sum.
Lanes == 0..(TBSIZE - 1)
Blocks == 0..(dot_num_blocks - 1)

\* blockDim.x * gridDim.x, line 209
GridStride(grid) == TBSIZE * grid

\* the fold without __syncthreads()
BarrierAbsent(blk, lane) == TRUE

\* __syncthreads(): a lane leaves the barrier once every lane of its block
\* has arrived at it
BarrierOpen(blk, lane) ==
  \A other \in Lanes : lbar[blk][other] >= lbar[blk][lane]

DotInputs(n) ==
  { <<Fill(n, 1), Fill(n, 2)>>,
    <<[i \in 0..(n-1) |-> i + 1], [i \in 0..(n-1) |-> (i % 2) + 1]>> }

\* an instance on which dot() has just launched dot_kernel
InitDot ==
  /\ deviceCount = 1
  /\ totalGlobalMem = [d \in {0} |-> 256]
  /\ scalar = 1
  /\ dot_elements_per_lane \in ElementsPerLane
  /\ activeDevice = 0
  /\ sizeofT = 4
  /\ ARRAY_SIZE \in {n \in ArraySizes : ArraySizeOK(n)}
  /\ BuffersFit(totalGlobalMem[0], ARRAY_SIZE, sizeofT)
  /\ device_index = 0
  /\ array_size = ARRAY_SIZE
  /\ dot_num_blocks = DotNumBlocks(ARRAY_SIZE, dot_elements_per_lane)
  /\ devAllocated = [d \in {0} |-> 3 * ArrayBytes(ARRAY_SIZE, sizeofT)]
  /\ hostAllocated = sizeofT * dot_num_blocks
  /\ pc = "call" /\ op = "dot" /\ ip = 2 /\ args = <<>>
  /\ outcome = "ok" /\ allocCalls = 4 /\ nConstructed = 1
  /\ \E in \in DotInputs(ARRAY_SIZE) : d_a = in[1] /\ d_b = in[2]
  /\ d_c = Fill(ARRAY_SIZE, 0)
  /\ \E g \in Garbage :
       /\ sums = Fill(dot_num_blocks, g)
       /\ tb_sum = [blk \in Blocks |-> [l \in Lanes |-> g]]
  /\ stream = <<[name |-> "dot", grid |-> dot_num_blocks, args |-> <<>>]>>
  /\ lastError = "success" /\ pendingError = FALSE
  /\ errorReported = FALSE /\ oob = FALSE
  /\ log = <<>> /\ initVals = <<0, 0, 0>>
  /\ h_a = NoBuf /\ h_b = NoBuf /\ h_c = NoBuf /\ dotResult = 0
  /\ lpc = [blk \in Blocks |-> [l \in Lanes |-> "start"]]
  /\ li = [blk \in Blocks |-> [l \in Lanes |-> 0]]
  /\ loff = [blk \in Blocks |-> [l \in Lanes |-> 0]]
  /\ ltmp = [blk \in Blocks |-> [l \in Lanes |-> 0]]
  /\ lbar = [blk \in Blocks |-> [l \in Lanes |-> 0]]
  /\ consumed = [i \in 0..(ARRAY_SIZE - 1) |-> 0]

hostVarsDot == <<envVars, memVars, pc, ctorVars, fieldVars, d_a, d_b, d_c,
                 callVars, devVars, histVars, outVars>>

\* the head of an iteration of the fold loop, lines 212-214: with the offset
\* off the lane either arrives at the barrier or leaves the loop
EnterFold(blk, lane, off) ==
  /\ loff' = [loff EXCEPT ![blk][lane] = off]
  /\ IF off > 0
       THEN /\ lbar' = [lbar EXCEPT ![blk][lane] = @ + 1]
            /\ lpc' = [lpc EXCEPT ![blk][lane] = "sync"]
       ELSE /\ lpc' = [lpc EXCEPT ![blk][lane] = "final"]
            /\ UNCHANGED lbar

\* lines 205-208
LaneStart(blk, lane) ==
  /\ lpc[blk][lane] = "start"
  /\ li' = [li EXCEPT ![blk][lane] = ThreadIndex(blk, lane)]
  /\ tb_sum' = [tb_sum EXCEPT ![blk][lane] = 0]
  /\ lpc' = [lpc EXCEPT ![blk][lane] = "acc"]
  /\ UNCHANGED <<hostVarsDot, sums, loff, ltmp, lbar, consumed>>

\* lines 209-210, one iteration, or the exit from the loop
LaneAccumulate(blk, lane) ==
  /\ lpc[blk][lane] = "acc"
  /\ IF li[blk][lane] < array_size
       THEN /\ tb_sum' = [tb_sum EXCEPT ![blk][lane] =
                 @ + d_a[li[blk][lane]] * d_b[li[blk][lane]]]
            /\ consumed' = [consumed EXCEPT ![li[blk][lane]] = @ + 1]
            /\ li' = [li EXCEPT ![blk][lane] = @ + GridStride(dot_num_blocks)]
            /\ UNCHANGED <<lpc, loff, lbar>>
       ELSE /\ EnterFold(blk, lane, TBSIZE \div 2)
            /\ UNCHANGED <<tb_sum, consumed, li>>
  /\ UNCHANGED <<hostVarsDot, sums, ltmp>>

\* lines 214-215: past the barrier, a lane below the offset folds
LaneSync(blk, lane) ==
  /\ lpc[blk][lane] = "sync"
  /\ BarrierOpen(blk, lane)
  /\ IF lane < loff[blk][lane]
       THEN /\ lpc' = [lpc EXCEPT ![blk][lane] = "read"]
            /\ UNCHANGED <<loff, lbar>>
       ELSE EnterFold(blk, lane, loff[blk][lane] \div 2)
  /\ UNCHANGED <<hostVarsDot, sums, li, ltmp, tb_sum, consumed>>

\* line 217, the read of the mirror lane's slot
LaneFoldRead(blk, lane) ==
  /\ lpc[blk][lane] = "read"
  /\ ltmp' = [ltmp EXCEPT ![blk][lane] = tb_sum[blk][lane + loff[blk][lane]]]
  /\ lpc' = [lpc EXCEPT ![blk][lane] = "write"]
  /\ UNCHANGED <<hostVarsDot, sums, li, loff, lbar, tb_sum, consumed>>

\* line 217, the write of the lane's own slot
LaneFoldWrite(blk, lane) ==
  /\ lpc[blk][lane] = "write"
  /\ tb_sum' = [tb_sum EXCEPT ![blk][lane] = @ + ltmp[blk][lane]]
  /\ EnterFold(blk, lane, loff[blk][lane] \div 2)
  /\ UNCHANGED <<hostVarsDot, sums, li, ltmp, consumed>>

\* lines 221-222
LaneStore(blk, lane) ==
  /\ lpc[blk][lane] = "final"
  /\ sums' = IF lane = 0 THEN [sums EXCEPT ![blk] = tb_sum[blk][lane]] ELSE sums
  /\ lpc' = [lpc EXCEPT ![blk][lane] = "done"]
  /\ UNCHANGED <<hostVarsDot, li, loff, ltmp, lbar, tb_sum, consumed>>

KernelDone == \A blk \in Blocks, lane \in Lanes : lpc[blk][lane] = "done"

\* the kernel leaves the stream when its last lane is done
DotKernelRetires ==
  /\ stream # <<>>
  /\ KernelDone
  /\ stream' = <<>>
  /\ UNCHANGED <<envVars, memVars, pc, ctorVars, fieldVars, bufVars, callVars,
                 lastError, pendingError, errorReported, oob, histVars,
                 outVars, laneVars>>

\* dot() on the host, lines 229-236, with the launch behind it
DotHost ==
  /\ op = "dot"
  /\ \/ StepGetLastError
     \/ StepSync
     \/ StepHostSum
     \/ Return

NextDot ==
  \/ \E blk \in Blocks, lane \in Lanes :
       \/ LaneStart(blk, lane)
       \/ LaneAccumulate(blk, lane)
       \/ LaneSync(blk, lane)
       \/ LaneFoldRead(blk, lane)
       \/ LaneFoldWrite(blk, lane)
       \/ LaneStore(blk, lane)
  \/ DotKernelRetires
  \/ DotHost

SpecDot == InitDot /\ [][NextDot]_vars


\* ==== the claims =============================================================
Indices == 0..(array_size - 1)
AllEqual(buf, v) == DOMAIN buf = Indices /\ \A i \in Indices : buf[i] = v
OnlyKernel(name) == \A j \in 1..Len(log) : log[j] = name
StepsAhead == {Script(op)[j] : j \in ip..Len(Script(op))}

\* C1: a constructor run that fails because the three arrays do not fit has
\* made no allocation call (neither hipHostMalloc nor hipMalloc) before it
\* fails.
C1_NoAllocationBeforeBudgetFailure ==
  outcome = "NotEnoughMemory" => allocCalls = 0

\* C2: the constructor goes on to allocate the device buffers only if the
\* device it was constructed for (device_index, the one made active) has at
\* least 3 * N * sizeof(T) bytes of total memory.
C2_BudgetCheckedOnSelectedDevice ==
  pc \in {"ctor_malloc_a", "ctor_malloc_b", "ctor_malloc_c"}
    => totalGlobalMem[device_index] >= 3 * ARRAY_SIZE * sizeofT

\* C3: a constructor run with a valid array size and a device index outside
\* [0, deviceCount), negative ones included, ends with the invalid-device
\* error thrown to the caller.
C3_BadDeviceIndexThrows ==
  (/\ outcome \notin {"none", "running", "BadArraySize"}
   /\ ~(device_index >= 0 /\ device_index < deviceCount))
    => outcome = "InvalidDevice"

\* C4: when the array size is not a multiple of TBSIZE the constructor throws
\* at its first test: no allocation call has been made, no device has been
\* selected and the memory held on the host and on every device is what it
\* was before the constructor ran.
C4_BadArraySizeFailsFirst ==
  [][(pc = "ctor_check_size" /\ ARRAY_SIZE % TBSIZE # 0)
       => (/\ pc' = "none"
           /\ outcome' = "BadArraySize"
           /\ allocCalls' = 0
           /\ UNCHANGED <<activeDevice, devAllocated, hostAllocated>>
           /\ UNCHANGED <<d_a, d_b, d_c, sums>>)]_vars

C4_Witness ==
  /\ pc = "none" /\ outcome = "BadArraySize"
  /\ ARRAY_SIZE % TBSIZE # 0
  /\ allocCalls = 0 /\ hostAllocated = 0
  /\ \A d \in DOMAIN devAllocated : devAllocated[d] = 0

\* C5: in dot, under every interleaving of the lanes that the barrier allows,
\* no lane reads a slot of tb_sum whose owner still has a write to it ahead in
\* the same fold step, every index below N has been accumulated exactly once
\* when the kernel is done, lane 0 of each block leaves in sums the sum of the
\* products of the indices of its block, and dot returns the sum of a[i]*b[i]
\* over all i.
RECURSIVE SumProducts(_, _, _)
SumProducts(a, b, n) ==
  IF n = 0 THEN 0 ELSE SumProducts(a, b, n - 1) + a[n - 1] * b[n - 1]

BlockIndices(blk) ==
  {i \in Indices : (i % GridStride(dot_num_blocks)) \div TBSIZE = blk}

RECURSIVE SumOver(_, _, _)
SumOver(a, b, S) ==
  IF S = {} THEN 0
  ELSE LET i == CHOOSE x \in S : TRUE
       IN a[i] * b[i] + SumOver(a, b, S \ {i})

FoldRace ==
  \E blk \in Blocks, lane \in Lanes :
    /\ lpc[blk][lane] = "read"
    /\ lpc[blk][lane + loff[blk][lane]] \in {"start", "acc", "read", "write"}

C5_DotSumsEveryIndexOnce ==
  /\ ~FoldRace
  /\ \A i \in DOMAIN consumed : consumed[i] <= 1
  /\ KernelDone =>
       /\ \A i \in DOMAIN consumed : consumed[i] = 1
       /\ \A blk \in Blocks : sums[blk] = SumOver(d_a, d_b, BlockIndices(blk))
  /\ (pc = "idle" /\ log = <<"dot">>)
       => dotResult = SumProducts(d_a, d_b, array_size)

C5_Witness ==
  /\ pc = "idle" /\ log = <<"dot">>
  /\ array_size = 8 /\ dot_num_blocks = 2
  /\ d_a = Fill(8, 1) /\ d_b = Fill(8, 2)
  /\ dotResult = 16

\* C6: the launches of array_size/TBSIZE blocks of TBSIZE threads have exactly
\* one thread per index of [0, N) and none outside, and a read_arrays that
\* follows init_arrays with no kernel in between returns three vectors of N
\* elements, all equal to initA, initB and initC.
C6_InitThenReadBack ==
  /\ pc \in {"idle", "call"} =>
       /\ \A i \in Indices :
            Cardinality({t \in (0..(LaunchGrid("init_arrays") - 1)) \X Lanes :
                           ThreadIndex(t[1], t[2]) = i}) = 1
       /\ Covered(LaunchGrid("init_arrays")) \subseteq Indices
       /\ ~oob
  /\ (pc = "idle" /\ initVals # <<>> /\ log = <<>> /\ h_a # NoBuf)
       => /\ AllEqual(h_a, initVals[1])
          /\ AllEqual(h_b, initVals[2])
          /\ AllEqual(h_c, initVals[3])

C6_Witness ==
  /\ pc = "idle" /\ initVals = <<0, 2, 3>> /\ log = <<>>
  /\ array_size = 8
  /\ AllEqual(h_a, 0) /\ AllEqual(h_b, 2) /\ AllEqual(h_c, 3)

\* C7: after k runs of nstream and no other kernel since init_arrays(initA,
\* initB, initC), every a[i] is initA + k * (initB + scalar * initC) and b and
\* c still hold initB and initC.
C7_NstreamAccumulates ==
  (pc = "idle" /\ initVals # <<>> /\ OnlyKernel("nstream"))
    => /\ AllEqual(d_a, initVals[1] + Len(log) * (initVals[2] + scalar * initVals[3]))
       /\ AllEqual(d_b, initVals[2])
       /\ AllEqual(d_c, initVals[3])

C7_Witness ==
  /\ pc = "idle" /\ initVals = <<1, 1, 1>> /\ scalar = 1
  /\ log = <<"nstream", "nstream">>
  /\ AllEqual(d_a, 5)

\* C8: whenever the last kernel run is triad, every a[i] is b[i] + scalar*c[i]
\* of the current b and c, and after R >= 1 runs of triad and no other kernel
\* since init_arrays, a is initB + scalar * initC whatever R is, with b and c
\* still initB and initC.
C8_TriadIdempotent ==
  /\ (pc = "idle" /\ log # <<>> /\ log[Len(log)] = "triad")
       => \A i \in Indices : d_a[i] = d_b[i] + scalar * d_c[i]
  /\ (pc = "idle" /\ initVals # <<>> /\ log # <<>> /\ OnlyKernel("triad"))
       => /\ AllEqual(d_a, initVals[2] + scalar * initVals[3])
          /\ AllEqual(d_b, initVals[2])
          /\ AllEqual(d_c, initVals[3])

C8_Witness ==
  /\ pc = "idle" /\ initVals = <<0, 2, 3>> /\ scalar = 2
  /\ log = <<"triad", "triad">>
  /\ AllEqual(d_a, 8)

\* C9: when a member function has returned no kernel is queued or running on
\* the device, so a kernel is launched and the arrays are copied back only
\* with the device idle, and dot sums the partial-sum buffer only after the
\* device has finished dot_kernel.
C9_CallsDoNotOverlap ==
  /\ pc \in {"idle", "none"} => stream = <<>> /\ ~pendingError
  /\ (pc = "call" /\ StepsAhead \cap {"launch"} # {}) => stream = <<>>
  /\ (pc = "call" /\ ip <= Len(Script(op)) /\ Script(op)[ip] = "hostsum")
       => stream = <<>> /\ ~pendingError

C9_Witness ==
  /\ pc = "call" /\ op = "read_arrays" /\ ip = 1
  /\ log = <<"nstream", "dot">> /\ stream = <<>>

\* C10: an error of a launch or of the execution of a kernel never outlives
\* the member function: while the process runs, a recorded launch error has a
\* hipGetLastError check ahead in the same function, an execution fault has
\* a hipDeviceSynchronize check ahead, and a function that has returned
\* leaves neither behind.
C10_NoErrorPassesSilently ==
  pc # "exited" =>
    /\ lastError # "success" => pc = "call" /\ "gle" \in StepsAhead
    /\ (pendingError \/ stream # <<>>) => pc = "call" /\ "sync" \in StepsAhead
    /\ errorReported => lastError # "success"

C10_Witness ==
  /\ pc = "exited" /\ op = "copy" /\ errorReported /\ outcome = "ok"

=============================================================================
